---- MODULE Spec2Model ----
(***************************************************************************)
(* Model of the Datadog metrics sink (src/sinks/datadog/metrics.rs):       *)
(*   - DatadogSink::build_request and its last_sent_timestamp (Spec),      *)
(*   - encode_events, the kind/value dispatch to series (EncodeSpec),      *)
(*   - Summary::new, the weighted summary it calls (SummarySpec).          *)
(* f64 values are exact rationals <<numerator, denominator>>; tag strings  *)
(* are sequences of character codes so that they can be ordered.           *)
(***************************************************************************)
EXTENDS Integers, Sequences, FiniteSets, TLC

\* ------------------------------------------------------------------ bounds
NumFlushes == 2
MaxClock == 2
MaxBatch == 2
MaxLen == 3
MaxRate == 2

\* ------------------------------------------------------------ Option, f64
None == [tag |-> "None"]

Some(x) == [tag |-> "Some", val |-> x]

IsSome(o) == o.tag = "Some"

Abs(n) == IF n < 0 THEN -n ELSE n

RECURSIVE GCD(_, _)
GCD(a, b) == IF b = 0 THEN a ELSE GCD(b, a % b)

\* n / d as an f64, for d # 0: the reduced fraction with a positive denominator
Ratio(n, d) ==
    LET g == GCD(Abs(n), Abs(d))
        s == IF d < 0 THEN -1 ELSE 1
    IN  <<(s * n) \div g, Abs(d) \div g>>

\* an integer `as f64`
F64(n) == <<n, 1>>

\* an f64 `as u32`: truncation toward zero, saturating at 0
AsU32(x) == IF x[1] < 0 THEN 0 ELSE x[1] \div x[2]

\* f64 * f64
Mul(x, y) == Ratio(x[1] * y[1], x[2] * y[2])

\* ------------------------------------------------------- StatisticKind
Histogram == "Histogram"

Distribution == "Distribution"

Incremental == "Incremental"

Absolute == "Absolute"

Gauge == "gauge"

Count == "count"

Rate == "rate"

\* ------------------------------------------------- Summary::new (statistic)
\* the quantile levels of a statistic, as f64
selectLevels(statistic) ==
    IF statistic = Histogram
    THEN << <<19, 20>> >>
    ELSE << <<1, 2>>, <<3, 4>>, <<9, 10>>, <<19, 20>>, <<99, 100>> >>

\* values[i] paired with sample_rates[i]
Zip(values, sample_rates) ==
    [i \in 1..Len(values) |-> <<values[i], sample_rates[i]>>]

\* insert bin b after every bin whose value is <= b's (stable)
RECURSIVE InsertBin(_, _)
InsertBin(s, b) ==
    IF s = <<>> THEN <<b>>
    ELSE IF b[1] < Head(s)[1] THEN <<b>> \o s
    ELSE <<Head(s)>> \o InsertBin(Tail(s), b)

\* bins sorted ascending by value, stable under ties
RECURSIVE SortBins(_)
SortBins(s) ==
    IF s = <<>> THEN <<>>
    ELSE InsertBin(SortBins(SubSeq(s, 1, Len(s) - 1)), s[Len(s)])

\* sum of the weights of the first k bins
RECURSIVE CumWeight(_, _)
CumWeight(bins, k) ==
    IF k = 0 THEN 0 ELSE CumWeight(bins, k - 1) + bins[k][2]

\* sum of value * weight over the first k bins
RECURSIVE CumSum(_, _)
CumSum(bins, k) ==
    IF k = 0 THEN 0 ELSE CumSum(bins, k - 1) + bins[k][1] * bins[k][2]

\* ceil(p * total), clamped to [1, total]
RankFloor(p, total) ==
    LET r == (p[1] * total) \div p[2]
    IN  IF r < 1 THEN 1 ELSE IF r > total THEN total ELSE r

Rank(p, total) ==
    LET r == (p[1] * total + p[2] - 1) \div p[2]
    IN  IF r < 1 THEN 1 ELSE IF r > total THEN total ELSE r

\* walk the prefix sums from bin k to the first bin whose cumulative weight
\* reaches rank
RECURSIVE Walk(_, _, _)
Walk(bins, rank, k) ==
    IF k >= Len(bins) \/ CumWeight(bins, k) >= rank
    THEN bins[k][1]
    ELSE Walk(bins, rank, k + 1)

\* the weighted nearest-rank quantile of sorted bins at level p
Quantile(bins, p) ==
    F64(Walk(bins, Rank(p, CumWeight(bins, Len(bins))), 1))

RECURSIVE MinOf(_, _)
MinOf(values, k) ==
    IF k = 1 THEN values[1]
    ELSE LET m == MinOf(values, k - 1)
         IN  IF values[k] < m THEN values[k] ELSE m

RECURSIVE MaxOf(_, _)
MaxOf(values, k) ==
    IF k = 1 THEN values[1]
    ELSE LET m == MaxOf(values, k - 1)
         IN  IF values[k] > m THEN values[k] ELSE m

\* the summary of inputs that passed the checks
SummaryOf(values, sample_rates, statistic) ==
    LET bins == SortBins(Zip(values, sample_rates))
        n == Len(bins)
        total == CumWeight(bins, n)
        sum == CumSum(bins, n)
        levels == selectLevels(statistic)
    IN  [min |-> F64(MinOf(values, n)),
         max |-> F64(MaxOf(values, n)),
         median |-> Quantile(bins, <<1, 2>>),
         avg |-> Ratio(sum, total),
         sum |-> F64(sum),
         count |-> F64(total),
         quantiles |-> [i \in 1..Len(levels) |->
                            <<levels[i], Quantile(bins, levels[i])>>]]

\* a lost length check: the pairing stops at the shorter input
SummaryNewZip(values, sample_rates, statistic) ==
    LET n == IF Len(values) < Len(sample_rates)
             THEN Len(values) ELSE Len(sample_rates)
        vs == SubSeq(values, 1, n)
        ws == SubSeq(sample_rates, 1, n)
    IN  IF n = 0 THEN None
        ELSE IF CumWeight(Zip(vs, ws), n) = 0 THEN None
        ELSE Some(SummaryOf(vs, ws, statistic))

\* Summary::new(&values, &sample_rates, statistic): Option<Summary>
SummaryNew(values, sample_rates, statistic) ==
    IF Len(values) # Len(sample_rates) THEN None
    ELSE IF Len(values) = 0 THEN None
    ELSE IF CumWeight(Zip(values, sample_rates), Len(values)) = 0 THEN None
    ELSE Some(SummaryOf(values, sample_rates, statistic))

\* ------------------------------------------------------------ encode_tags
Colon == <<58>>

\* a < b in the byte-wise lexicographic order of strings
RECURSIVE LexLess(_, _)
LexLess(a, b) ==
    IF b = <<>> THEN FALSE
    ELSE IF a = <<>> THEN TRUE
    ELSE IF Head(a) # Head(b) THEN Head(a) < Head(b)
    ELSE LexLess(Tail(a), Tail(b))

RECURSIVE InsertStr(_, _)
InsertStr(s, x) ==
    IF s = <<>> THEN <<x>>
    ELSE IF LexLess(x, Head(s)) THEN <<x>> \o s
    ELSE <<Head(s)>> \o InsertStr(Tail(s), x)

\* Vec<String>::sort
RECURSIVE SortStrs(_)
SortStrs(s) ==
    IF s = <<>> THEN <<>>
    ELSE InsertStr(SortStrs(SubSeq(s, 1, Len(s) - 1)), s[Len(s)])

\* BTreeMap::iter: the keys in ascending order
RECURSIVE KeysAscending(_)
KeysAscending(S) ==
    IF S = {} THEN <<>>
    ELSE LET m == CHOOSE k \in S : \A j \in S \ {k} : LexLess(k, j)
         IN  <<m>> \o KeysAscending(S \ {m})

\* the "k:v" strings of the map, sorted
encode_tags(tags) ==
    LET keys == KeysAscending(DOMAIN tags)
        pairs == [i \in 1..Len(keys) |-> keys[i] \o Colon \o tags[keys[i]]]
    IN  SortStrs(pairs)

\* Option::map(encode_tags)
MapTags(tags) == IF IsSome(tags) THEN Some(encode_tags(tags.val)) ELSE None

\* ------------------------------------------------------- encode_timestamp
\* DateTime::timestamp of <<seconds, nanoseconds>>
Timestamp(dt) == dt[1]

\* `read` is what Utc::now().timestamp() returns if it is called
encode_timestamp(timestamp, read) ==
    IF IsSome(timestamp) THEN Timestamp(timestamp.val) ELSE read

\* ------------------------------------------------------- encode_namespace
\* the prefix joined without the emptiness test
encode_namespace_always(namespace, name) == namespace \o "." \o name

encode_namespace(namespace, name) ==
    IF namespace # "" THEN namespace \o "." \o name ELSE name

\* --------------------------------------------------------- encode_events
DatadogMetric(metric, type, interval, points, tags) ==
    [metric |-> metric, type |-> type, interval |-> interval,
     points |-> points, tags |-> tags]

DatadogPoint(ts, value) == <<ts, value>>

\* the `metric` closure of the Samples branch
SamplesMetric(metric, type, value, interval, ts, tags) ==
    DatadogMetric(metric, type, Some(interval), <<DatadogPoint(ts, value)>>, tags)

\* (q * 100.0) as u32
Percent(q) == ToString(AsU32(Mul(q, F64(100))))

\* the count record typed Count, as the Distribution branch types it
HistogramSeriesCount(s, fullname, interval, ts, tags) ==
    << SamplesMetric(fullname \o ".min", Gauge, s.min, interval, ts, tags),
       SamplesMetric(fullname \o ".avg", Gauge, s.avg, interval, ts, tags),
       SamplesMetric(fullname \o ".count", Count, s.count, interval, ts, tags),
       SamplesMetric(fullname \o ".median", Gauge, s.median, interval, ts, tags),
       SamplesMetric(fullname \o ".max", Gauge, s.max, interval, ts, tags) >>
    \o [i \in 1..Len(s.quantiles) |->
            SamplesMetric(fullname \o "." \o Percent(s.quantiles[i][1]) \o "percentile",
                          Gauge, s.quantiles[i][2], interval, ts, tags)]

\* StatisticKind::Histogram
HistogramSeries(s, fullname, interval, ts, tags) ==
    << SamplesMetric(fullname \o ".min", Gauge, s.min, interval, ts, tags),
       SamplesMetric(fullname \o ".avg", Gauge, s.avg, interval, ts, tags),
       SamplesMetric(fullname \o ".count", Rate, s.count, interval, ts, tags),
       SamplesMetric(fullname \o ".median", Gauge, s.median, interval, ts, tags),
       SamplesMetric(fullname \o ".max", Gauge, s.max, interval, ts, tags) >>
    \o [i \in 1..Len(s.quantiles) |->
            SamplesMetric(fullname \o "." \o Percent(s.quantiles[i][1]) \o "percentile",
                          Gauge, s.quantiles[i][2], interval, ts, tags)]

\* the median record in place of the sum record, as the Histogram branch has it
DistributionSeriesMedian(s, fullname, interval, ts, tags) ==
    << SamplesMetric("min:" \o fullname, Gauge, s.min, interval, ts, tags),
       SamplesMetric("avg:" \o fullname, Gauge, s.avg, interval, ts, tags),
       SamplesMetric("count:" \o fullname, Count, s.count, interval, ts, tags),
       SamplesMetric("max:" \o fullname, Gauge, s.max, interval, ts, tags),
       SamplesMetric("median:" \o fullname, Gauge, s.median, interval, ts, tags) >>
    \o [i \in 1..Len(s.quantiles) |->
            SamplesMetric("p" \o Percent(s.quantiles[i][1]) \o ":" \o fullname,
                          Gauge, s.quantiles[i][2], interval, ts, tags)]

\* StatisticKind::Distribution
DistributionSeries(s, fullname, interval, ts, tags) ==
    << SamplesMetric("min:" \o fullname, Gauge, s.min, interval, ts, tags),
       SamplesMetric("avg:" \o fullname, Gauge, s.avg, interval, ts, tags),
       SamplesMetric("count:" \o fullname, Count, s.count, interval, ts, tags),
       SamplesMetric("max:" \o fullname, Gauge, s.max, interval, ts, tags),
       SamplesMetric("sum:" \o fullname, Count, s.sum, interval, ts, tags) >>
    \o [i \in 1..Len(s.quantiles) |->
            SamplesMetric("p" \o Percent(s.quantiles[i][1]) \o ":" \o fullname,
                          Gauge, s.quantiles[i][2], interval, ts, tags)]

\* Summary::new(..).map(|s| ..) of the Samples branch
SamplesSeries(value, fullname, interval, ts, tags) ==
    LET s == SummaryNew(value.values, value.sample_rates, value.statistic)
    IN  IF ~IsSome(s) THEN None
        ELSE IF value.statistic = Histogram
        THEN Some(HistogramSeries(s.val, fullname, interval, ts, tags))
        ELSE Some(DistributionSeries(s.val, fullname, interval, ts, tags))

\* the arms of `match event.value` under MetricKind::Incremental, with a
\* Set that carries the interval like a Counter
IncrementalSeriesSetInterval(value, fullname, interval, ts, tags) ==
    CASE value.variant = "Counter" ->
            Some(<<DatadogMetric(fullname, Count, Some(interval),
                                 <<DatadogPoint(ts, value.value)>>, tags)>>)
      [] value.variant = "Samples" ->
            SamplesSeries(value, fullname, interval, ts, tags)
      [] value.variant = "Set" ->
            Some(<<DatadogMetric(fullname, Gauge, Some(interval),
                                 <<DatadogPoint(ts, F64(Cardinality(value.values)))>>,
                                 tags)>>)
      [] OTHER -> None

\* the arms of `match event.value` under MetricKind::Incremental
IncrementalSeries(value, fullname, interval, ts, tags) ==
    CASE value.variant = "Counter" ->
            Some(<<DatadogMetric(fullname, Count, Some(interval),
                                 <<DatadogPoint(ts, value.value)>>, tags)>>)
      [] value.variant = "Samples" ->
            SamplesSeries(value, fullname, interval, ts, tags)
      [] value.variant = "Set" ->
            Some(<<DatadogMetric(fullname, Gauge, None,
                                 <<DatadogPoint(ts, F64(Cardinality(value.values)))>>,
                                 tags)>>)
      [] OTHER -> None

\* the arms under MetricKind::Absolute, with a Counter passed through as a Gauge
AbsoluteSeriesCounter(value, fullname, ts, tags) ==
    CASE value.variant \in {"Gauge", "Counter"} ->
            Some(<<DatadogMetric(fullname, Gauge, None,
                                 <<DatadogPoint(ts, value.value)>>, tags)>>)
      [] OTHER -> None

\* the arms of `match event.value` under MetricKind::Absolute
AbsoluteSeries(value, fullname, ts, tags) ==
    CASE value.variant = "Gauge" ->
            Some(<<DatadogMetric(fullname, Gauge, None,
                                 <<DatadogPoint(ts, value.value)>>, tags)>>)
      [] OTHER -> None

\* the filter_map closure: the records of one event, or None
EncodeEvent(event, interval, namespace, read) ==
    LET fullname == encode_namespace(namespace, event.name)
        ts == encode_timestamp(event.timestamp, read)
        tags == MapTags(event.tags)
    IN  IF event.kind = Incremental
        THEN IncrementalSeries(event.value, fullname, interval, ts, tags)
        ELSE AbsoluteSeries(event.value, fullname, ts, tags)

\* a collect that gives up on the first event without records
FlattenAll(mapped) ==
    IF \E i \in 1..Len(mapped) : ~IsSome(mapped[i]) THEN <<>>
    ELSE LET RECURSIVE Cat(_)
             Cat(m) == IF m = <<>> THEN <<>> ELSE Head(m).val \o Cat(Tail(m))
         IN  Cat(mapped)

\* a flatten that puts each event's records before those of the events ahead
\* of it
RECURSIVE FlattenReversed(_)
FlattenReversed(mapped) ==
    IF mapped = <<>> THEN <<>>
    ELSE FlattenReversed(Tail(mapped))
         \o (IF IsSome(Head(mapped)) THEN Head(mapped).val ELSE <<>>)

\* Iterator::flatten over the closure's results, collected
RECURSIVE Flatten(_)
Flatten(mapped) ==
    IF mapped = <<>> THEN <<>>
    ELSE (IF IsSome(Head(mapped)) THEN Head(mapped).val ELSE <<>>)
         \o Flatten(Tail(mapped))

\* the closure's result for every event of the batch; reads[i] is the clock
\* value event i sees if it has no timestamp
MapEvents(events, interval, namespace, reads) ==
    [i \in 1..Len(events) |-> EncodeEvent(events[i], interval, namespace, reads[i])]

\* the DatadogRequest of a batch
encode_events(events, interval, namespace, reads) ==
    [series |-> Flatten(MapEvents(events, interval, namespace, reads))]

\* ------------------------------------------------------------------ inputs
Metric(name, timestamp, tags, kind, value) ==
    [name |-> name, timestamp |-> timestamp, tags |-> tags,
     kind |-> kind, value |-> value]

Counter(v) == [variant |-> "Counter", value |-> v]

GaugeValue(v) == [variant |-> "Gauge", value |-> v]

SetValue(vs) == [variant |-> "Set", values |-> vs]

Samples(values, sample_rates, statistic) ==
    [variant |-> "Samples", values |-> values,
     sample_rates |-> sample_rates, statistic |-> statistic]

\* tags "a" -> "z" and "a " -> "y": the key order is not the order of "k:v"
TagsTwo == (<<97>> :> <<122>>) @@ (<<97, 32>> :> <<121>>)

TagsEmpty == <<>>

\* 2018-11-14 08:09:10.000000011 scaled down: <<seconds, nanoseconds>>
Ts == <<7, 11>>

StatisticKinds == {Histogram, Distribution}

\* the sample inputs of the batches: two that summarize, then the empty,
\* the mismatched and the zero-weight input
SampleInputs ==
    { << <<1, 2, 3>>, <<3, 3, 2>> >>,
      << <<3, 1>>, <<1, 2>> >>,
      << <<>>, <<>> >>,
      << <<1>>, <<1, 2, 3>> >>,
      << <<1, 2>>, <<0, 0>> >> }

SampleValuesOf ==
    { Samples(vw[1], vw[2], st) : vw \in SampleInputs, st \in StatisticKinds }

IncrementalValues ==
    { Counter(<<3, 2>>), GaugeValue(<<1, 10>>), SetValue({"alice", "bob"}) }
    \cup SampleValuesOf

AbsoluteValues ==
    { Counter(<<1, 1>>), GaugeValue(<<-11, 10>>), SetValue({"alice", "bob"}),
      Samples(<<1, 2, 3>>, <<3, 3, 2>>, Histogram) }

\* every kind/value combination, with a timestamp and no tags
PlainEvents ==
    { Metric("requests", Some(Ts), None, Incremental, v) : v \in IncrementalValues }
    \cup { Metric("requests", Some(Ts), None, Absolute, v) : v \in AbsoluteValues }

\* events without a timestamp and with tags
TaggedEvents ==
    { Metric("total", None, Some(TagsTwo), Incremental, v) :
        v \in { Counter(<<3, 2>>), SetValue({"alice"}),
                Samples(<<1, 2, 3>>, <<3, 3, 2>>, Histogram),
                Samples(<<1, 2, 3>>, <<3, 3, 2>>, Distribution),
                Samples(<<>>, <<>>, Histogram) } }
    \cup { Metric("total", None, Some(TagsTwo), Absolute, GaugeValue(<<-11, 10>>)),
           Metric("total", Some(Ts), Some(TagsEmpty), Absolute, GaugeValue(<<2, 1>>)),
           Metric("total", Some(Ts), Some(TagsEmpty), Incremental, Counter(<<1, 1>>)) }

Events == PlainEvents \cup TaggedEvents

Intervals == {0, 60}

Namespaces == {"", "ns"}

\* what Utc::now().timestamp() can return during one encode_events call
EncodeClock == {5, 6}

\* the clock values the events of a batch can see: non-decreasing, and read
\* only by the events that have no timestamp (0 stands for no read)
ReadsOf(evs) ==
    { r \in [1..Len(evs) -> EncodeClock \cup {0}] :
        /\ \A i \in 1..Len(evs) : (r[i] = 0) <=> IsSome(evs[i].timestamp)
        /\ \A i, j \in 1..Len(evs) : (i < j /\ r[i] # 0 /\ r[j] # 0) => r[i] <= r[j] }

\* ------------------------------------------------------------------- state
VARIABLES
    \* the sink: DatadogSink.last_sent_timestamp and the build_request calls
    clock, created, last_sent_timestamp, pc, now, loaded, interval, writes,
    request, order, overlap,
    \* one encode_events call
    e_pc, events, e_interval, e_namespace, reads, mapped, series,
    \* one Summary::new call
    s_pc, s_values, s_rates, s_statistic, summary

sinkVars ==
    <<clock, created, last_sent_timestamp, pc, now, loaded, interval, writes,
      request, order, overlap>>

encodeVars == <<e_pc, events, e_interval, e_namespace, reads, mapped, series>>

summaryVars == <<s_pc, s_values, s_rates, s_statistic, summary>>

vars == <<sinkVars, encodeVars, summaryVars>>

\* ---------------------------------------------------------- encode_events
EncodeInit ==
    /\ e_pc = "input"
    /\ events = <<>>
    /\ e_interval = 0
    /\ e_namespace = ""
    /\ reads = <<>>
    /\ mapped = <<>>
    /\ series = <<>>

EncodeOff ==
    /\ e_pc = "off"
    /\ events = <<>>
    /\ e_interval = 0
    /\ e_namespace = ""
    /\ reads = <<>>
    /\ mapped = <<>>
    /\ series = <<>>

\* the caller adds an event to the batch
Push(e) ==
    /\ e_pc = "input"
    /\ Len(events) < MaxBatch
    /\ events' = Append(events, e)
    /\ UNCHANGED <<e_pc, e_interval, e_namespace, reads, mapped, series>>
    /\ UNCHANGED <<sinkVars, summaryVars>>

\* encode_events(events, interval, namespace)
Encode(i, ns, r) ==
    /\ e_pc = "input"
    /\ e_pc' = "done"
    /\ e_interval' = i
    /\ e_namespace' = ns
    /\ reads' = r
    /\ mapped' = MapEvents(events, i, ns, r)
    /\ series' = encode_events(events, i, ns, r).series
    /\ UNCHANGED events
    /\ UNCHANGED <<sinkVars, summaryVars>>

EncodeNext ==
    \/ \E e \in Events : Push(e)
    \/ \E i \in Intervals, ns \in Namespaces : \E r \in ReadsOf(events) : Encode(i, ns, r)

\* ------------------------------------------------------------ Summary::new
SampleValues == {1, 2, 3}

SeqsUpTo(S, n) == UNION { [1..k -> S] : k \in 0..n }

SummaryInit ==
    /\ s_pc = "input"
    /\ s_values \in SeqsUpTo(SampleValues, MaxLen)
    /\ s_rates \in SeqsUpTo(0..MaxRate, MaxLen)
    /\ s_statistic \in StatisticKinds
    /\ summary = None

SummaryOff ==
    /\ s_pc = "off"
    /\ s_values = <<>>
    /\ s_rates = <<>>
    /\ s_statistic = Histogram
    /\ summary = None

Summarize ==
    /\ s_pc = "input"
    /\ s_pc' = "done"
    /\ summary' = SummaryNew(s_values, s_rates, s_statistic)
    /\ UNCHANGED <<s_values, s_rates, s_statistic>>
    /\ UNCHANGED <<sinkVars, encodeVars>>

SummaryNext == Summarize

\* ------------------------------------------- DatadogSink::build_request
Flushes == 1..NumFlushes

\* the batches handed to build_request
SinkBatches ==
    { << Metric("total", None, None, Incremental, Counter(<<3, 2>>)) >>,
      << Metric("users", Some(Ts), None, Incremental, SetValue({"alice", "bob"})),
         Metric("requests", None, Some(TagsTwo), Incremental,
                Samples(<<1, 2, 3>>, <<3, 3, 2>>, Histogram)),
         Metric("unsupported", Some(Ts), None, Absolute, Counter(<<1, 1>>)) >> }

SinkNamespace == "ns"

InFlight(f) == pc[f] \in {"load", "store", "encode"}

\* DatadogConfig::build: last_sent_timestamp = Utc::now().timestamp()
SinkInit ==
    /\ clock \in {0, 1}
    /\ created = clock
    /\ last_sent_timestamp = clock
    /\ pc = [f \in Flushes |-> "idle"]
    /\ now = [f \in Flushes |-> 0]
    /\ loaded = [f \in Flushes |-> 0]
    /\ interval = [f \in Flushes |-> 0]
    /\ writes = [f \in Flushes |-> 0]
    /\ request = [f \in Flushes |-> None]
    /\ order = <<>>
    /\ overlap = FALSE

\* the wall clock advances
Tick ==
    /\ clock < MaxClock
    /\ clock' = clock + 1
    /\ UNCHANGED <<created, last_sent_timestamp, pc, now, loaded, interval,
                   writes, request, order, overlap>>
    /\ UNCHANGED <<encodeVars, summaryVars>>

\* let now = Utc::now().timestamp();
ReadClock(f) ==
    /\ pc[f] = "idle"
    /\ now' = [now EXCEPT ![f] = clock]
    /\ pc' = [pc EXCEPT ![f] = "load"]
    /\ order' = Append(order, f)
    /\ overlap' = (overlap \/ \E g \in Flushes \ {f} : InFlight(g))
    /\ UNCHANGED <<clock, created, last_sent_timestamp, loaded, interval,
                   writes, request>>
    /\ UNCHANGED <<encodeVars, summaryVars>>

\* let interval = now - self.last_sent_timestamp.load(SeqCst);
Load(f) ==
    /\ pc[f] = "load"
    /\ loaded' = [loaded EXCEPT ![f] = last_sent_timestamp]
    /\ interval' = [interval EXCEPT ![f] = now[f] - last_sent_timestamp]
    /\ pc' = [pc EXCEPT ![f] = "store"]
    /\ UNCHANGED <<clock, created, last_sent_timestamp, now, writes, request,
                   order, overlap>>
    /\ UNCHANGED <<encodeVars, summaryVars>>

\* a store of a fresh clock value instead of `now`
StoreFresh(f) ==
    /\ pc[f] = "store"
    /\ last_sent_timestamp' = clock
    /\ writes' = [writes EXCEPT ![f] = @ + 1]
    /\ pc' = [pc EXCEPT ![f] = "encode"]
    /\ UNCHANGED <<clock, created, now, loaded, interval, request, order, overlap>>
    /\ UNCHANGED <<encodeVars, summaryVars>>

\* self.last_sent_timestamp.store(now, SeqCst);
Store(f) ==
    /\ pc[f] = "store"
    /\ last_sent_timestamp' = now[f]
    /\ writes' = [writes EXCEPT ![f] = @ + 1]
    /\ pc' = [pc EXCEPT ![f] = "encode"]
    /\ UNCHANGED <<clock, created, now, loaded, interval, request, order, overlap>>
    /\ UNCHANGED <<encodeVars, summaryVars>>

\* let input = encode_events(events, interval, &self.config.namespace);
\* and the request is returned
BuildBody(f, evs) ==
    /\ pc[f] = "encode"
    /\ request' = [request EXCEPT ![f] =
                       Some(encode_events(evs, interval[f], SinkNamespace,
                                          [i \in 1..Len(evs) |-> clock]))]
    /\ pc' = [pc EXCEPT ![f] = "done"]
    /\ UNCHANGED <<clock, created, last_sent_timestamp, now, loaded, interval,
                   writes, order, overlap>>
    /\ UNCHANGED <<encodeVars, summaryVars>>

SinkNext ==
    \/ Tick
    \/ \E f \in Flushes : ReadClock(f)
    \/ \E f \in Flushes : Load(f)
    \/ \E f \in Flushes : Store(f)
    \/ \E f \in Flushes : \E evs \in SinkBatches : BuildBody(f, evs)

\* --------------------------------------------------------- specifications
Init == SinkInit /\ EncodeOff /\ SummaryOff

Next == SinkNext

Spec == Init /\ [][Next]_vars

EncodeSpecInit == EncodeInit /\ SinkInit /\ clock = 0 /\ SummaryOff

EncodeSpec == EncodeSpecInit /\ [][EncodeNext]_vars

SummarySpecInit == SummaryInit /\ SinkInit /\ clock = 0 /\ EncodeOff

SummarySpec == SummarySpecInit /\ [][SummaryNext]_vars

\* ================================================================= claims
\* ---------------------------------------------------------------- the sink
PastLoad(f) == pc[f] \in {"store", "encode", "done"}

PastStore(f) == pc[f] \in {"encode", "done"}

Orders ==
    { p \in [1..NumFlushes -> Flushes] :
        \A i, j \in 1..NumFlushes : i # j => p[i] # p[j] }

\* C1: for concurrent build_request calls, in every interleaving, the previous
\* values of last_sent_timestamp the calls use are those of one indivisible
\* read-and-replace per call: in some order of the calls, the first observes
\* the construction-time value and each later one the value its predecessor
\* wrote.
C1_OneExchangePerFlush ==
    (\A f \in Flushes : PastLoad(f)) =>
        \E p \in Orders :
            /\ loaded[p[1]] = created
            /\ \A k \in 2..NumFlushes : loaded[p[k]] = now[p[k - 1]]

\* the value the k-th call of a run without overlap must find
PreviousRead(k) == IF k = 1 THEN created ELSE now[order[k - 1]]

\* C2: while build_request calls do not overlap, the k-th call's interval is
\* the clock value it read minus the one the (k-1)-th call read (the
\* construction-time value for k = 1), it writes last_sent_timestamp once,
\* leaving it equal to the clock value it read, and every record of its
\* request that carries an interval carries that interval.
C2_SequentialIntervals ==
    ~overlap =>
        \A k \in 1..Len(order) :
            LET f == order[k] IN
            /\ PastLoad(f) => interval[f] = now[f] - PreviousRead(k)
            /\ ~PastStore(f) => writes[f] = 0
            /\ PastStore(f) =>
                   /\ writes[f] = 1
                   /\ k = Len(order) => last_sent_timestamp = now[f]
            /\ pc[f] = "done" =>
                   \A n \in 1..Len(request[f].val.series) :
                       LET r == request[f].val.series[n] IN
                       IsSome(r.interval) =>
                           r.interval.val = now[f] - PreviousRead(k)

\* two calls, one after the other, the second with a positive interval that
\* its records carry
C2_Witness ==
    /\ ~overlap
    /\ Len(order) >= 2
    /\ \A f \in Flushes : pc[f] = "done"
    /\ interval[order[1]] > 0
    /\ interval[order[2]] > 0
    /\ \E n \in 1..Len(request[order[2]].val.series) :
           request[order[2]].val.series[n].interval = Some(interval[order[2]])

\* ------------------------------------------------------------- the summary
RECURSIVE SumSeq(_)
SumSeq(w) == IF w = <<>> THEN 0 ELSE Head(w) + SumSeq(Tail(w))

\* the weight of the samples whose value is at most x
RECURSIVE WeightUpTo(_, _, _)
WeightUpTo(values, weights, x) ==
    IF values = <<>> THEN 0
    ELSE (IF Head(values) <= x THEN Head(weights) ELSE 0)
         + WeightUpTo(Tail(values), Tail(weights), x)

\* ceil(p * total) as the least integer r with r >= p * total, clamped to
\* [1, total]
CeilRank(p, total) ==
    LET c == CHOOSE r \in 0..total :
                 /\ r * p[2] >= p[1] * total
                 /\ \A q \in 0..(r - 1) : q * p[2] < p[1] * total
    IN  IF c < 1 THEN 1 ELSE c

\* the weighted nearest-rank quantile: the least value whose cumulative
\* weight, in ascending order of value, reaches the rank
NearestRank(values, weights, p) ==
    LET rank == CeilRank(p, SumSeq(weights))
        reach == { values[i] : i \in 1..Len(values) }
        ok == { x \in reach : WeightUpTo(values, weights, x) >= rank }
    IN  CHOOSE x \in ok : \A y \in ok : x <= y

\* tests::test_dense_stats, test_sparse_stats and test_single_value_stats
DenseStats ==
    SummaryNew([i \in 1..20 |-> i - 1], [i \in 1..20 |-> 1], Histogram)

SparseStats == SummaryNew(<<1, 2, 3, 4>>, <<1, 2, 3, 4>>, Histogram)

SingleValueStats == SummaryNew(<<10>>, <<1>>, Histogram)

\* C3: every summary that Summary::new returns has, as its median and as the
\* value of every quantile level p of its statistic, the weighted nearest-rank
\* quantile: the value of the first pair, in ascending order of value, whose
\* cumulative weight reaches ceil(p * total) clamped to [1, total]; values
\* 0..19 of weight 1 give median 9 and 0.95-quantile 18, values 1..4 of
\* weights 1..4 give median 3 and 0.95-quantile 4.
C3_NearestRankQuantiles ==
    /\ (s_pc = "done" /\ IsSome(summary)) =>
           /\ summary.val.median = F64(NearestRank(s_values, s_rates, <<1, 2>>))
           /\ Len(summary.val.quantiles) =
                  (IF s_statistic = Histogram THEN 1 ELSE 5)
           /\ \A i \in 1..Len(summary.val.quantiles) :
                  LET q == summary.val.quantiles[i] IN
                  q[2] = F64(NearestRank(s_values, s_rates, q[1]))
    /\ DenseStats.val.median = <<9, 1>>
    /\ DenseStats.val.quantiles = << <<<<19, 20>>, <<18, 1>>>> >>
    /\ SparseStats.val.median = <<3, 1>>
    /\ SparseStats.val.quantiles = << <<<<19, 20>>, <<4, 1>>>> >>
    /\ SingleValueStats.val.median = <<10, 1>>

\* unsorted values whose quantiles differ: weights 1, 2, 2 on 3, 1, 2 give
\* median 2, 0.75-quantile 2 and 0.9-quantile 3
C3_Witness ==
    /\ s_pc = "done"
    /\ s_values = <<3, 1, 2>>
    /\ s_rates = <<1, 2, 2>>
    /\ s_statistic = Distribution
    /\ IsSome(summary)
    /\ summary.val.median = <<2, 1>>
    /\ summary.val.quantiles[2] = << <<3, 4>>, <<2, 1>> >>
    /\ summary.val.quantiles[3] = << <<9, 10>>, <<3, 1>> >>

\* C9: Summary::new returns no summary when values and weights differ in
\* length, when the input is empty and when the weights sum to zero; it
\* returns a summary for every other input.
C9_SummaryFailures ==
    s_pc = "done" =>
        (IsSome(summary) <=>
            /\ Len(s_values) = Len(s_rates)
            /\ Len(s_values) > 0
            /\ SumSeq(s_rates) > 0)

\* each failure has happened: here the zero weights, and the mismatch and the
\* empty input are inputs of the same specification
C9_Witness ==
    /\ s_pc = "done"
    /\ s_values = <<1, 2>>
    /\ s_rates = <<0, 0>>
    /\ ~IsSome(summary)

\* ------------------------------------------------------------ the encoding
\* the number of records the closure gave for event i
EmittedCount(i) == IF IsSome(mapped[i]) THEN Len(mapped[i].val) ELSE 0

RECURSIVE Offset(_)
Offset(i) == IF i = 1 THEN 0 ELSE Offset(i - 1) + EmittedCount(i - 1)

\* the records of the series that event i emitted
Emitted(i) ==
    IF Offset(i) + EmittedCount(i) <= Len(series)
    THEN SubSeq(series, Offset(i) + 1, Offset(i) + EmittedCount(i))
    ELSE <<>>

\* the namespaced name of event i
FullName(i) ==
    IF e_namespace = "" THEN events[i].name
    ELSE e_namespace \o "." \o events[i].name

RemoveAt(q, i) == SubSeq(q, 1, i - 1) \o SubSeq(q, i + 1, Len(q))

RECURSIVE SumProduct(_, _)
SumProduct(values, weights) ==
    IF values = <<>> THEN 0
    ELSE Head(values) * Head(weights) + SumProduct(Tail(values), Tail(weights))

IsSamples(i, statistic) ==
    /\ events[i].kind = Incremental
    /\ events[i].value.variant = "Samples"
    /\ events[i].value.statistic = statistic

Summarizes(i) ==
    IsSome(SummaryNew(events[i].value.values, events[i].value.sample_rates,
                      events[i].value.statistic))

\* records k of event i all have one point, the interval of the call, and the
\* timestamp and tags of the first of them
SharedFields(i) ==
    \A k \in 1..Len(Emitted(i)) :
        LET r == Emitted(i)[k] IN
        /\ r.interval = Some(e_interval)
        /\ Len(r.points) = 1
        /\ r.points[1][1] = Emitted(i)[1].points[1][1]
        /\ r.tags = Emitted(i)[1].tags

\* C4: an Incremental Samples metric with statistic Histogram whose summary
\* succeeds emits exactly 6 records, in the order .min (gauge), .avg (gauge),
\* .count (rate, the weighted count), .median (gauge), .max (gauge),
\* .95percentile (gauge, the 0.95-quantile), all with interval =
\* Some(interval), one timestamp and one tags value, and none named .sum.
C4_HistogramRecords ==
    e_pc = "done" =>
        \A i \in 1..Len(events) :
            (IsSamples(i, Histogram) /\ Summarizes(i)) =>
                LET v == events[i].value.values
                    w == events[i].value.sample_rates
                    names == <<".min", ".avg", ".count", ".median", ".max",
                               ".95percentile">>
                    types == <<Gauge, Gauge, Rate, Gauge, Gauge, Gauge>>
                    vals == <<F64(MinOf(v, Len(v))),
                              Ratio(SumProduct(v, w), SumSeq(w)),
                              F64(SumSeq(w)),
                              F64(NearestRank(v, w, <<1, 2>>)),
                              F64(MaxOf(v, Len(v))),
                              F64(NearestRank(v, w, <<19, 20>>))>>
                IN  /\ Len(Emitted(i)) = 6
                    /\ \A k \in 1..6 :
                           /\ Emitted(i)[k].metric = FullName(i) \o names[k]
                           /\ Emitted(i)[k].type = types[k]
                           /\ Emitted(i)[k].points[1][2] = vals[k]
                           /\ Emitted(i)[k].metric # FullName(i) \o ".sum"
                    /\ SharedFields(i)

\* the test's histogram, second in its batch, under a namespace
C4_Witness ==
    /\ e_pc = "done"
    /\ Len(events) = 2
    /\ events[1].kind = Incremental /\ events[1].value.variant = "Counter"
    /\ IsSamples(2, Histogram)
    /\ events[2].value.values = <<1, 2, 3>>
    /\ e_namespace = "ns"
    /\ e_interval = 60
    /\ Len(series) = 7
    /\ series[3].metric = "ns.requests.avg" /\ series[3].points[1][2] = <<15, 8>>
    /\ series[7].metric = "ns.requests.95percentile"

\* C5: an Incremental Samples metric with statistic Distribution whose summary
\* succeeds emits exactly 10 records, in the order min: (gauge), avg: (gauge),
\* count: (count), max: (gauge), sum: (count, the sum of value * weight), then
\* p50:, p75:, p90:, p95:, p99: (gauge) in ascending level, all with interval =
\* Some(interval), and none named median.
C5_DistributionRecords ==
    e_pc = "done" =>
        \A i \in 1..Len(events) :
            (IsSamples(i, Distribution) /\ Summarizes(i)) =>
                LET v == events[i].value.values
                    w == events[i].value.sample_rates
                    names == <<"min:", "avg:", "count:", "max:", "sum:",
                               "p50:", "p75:", "p90:", "p95:", "p99:">>
                    types == <<Gauge, Gauge, Count, Gauge, Count,
                               Gauge, Gauge, Gauge, Gauge, Gauge>>
                    vals == <<F64(MinOf(v, Len(v))),
                              Ratio(SumProduct(v, w), SumSeq(w)),
                              F64(SumSeq(w)),
                              F64(MaxOf(v, Len(v))),
                              F64(SumProduct(v, w)),
                              F64(NearestRank(v, w, <<1, 2>>)),
                              F64(NearestRank(v, w, <<3, 4>>)),
                              F64(NearestRank(v, w, <<9, 10>>)),
                              F64(NearestRank(v, w, <<19, 20>>)),
                              F64(NearestRank(v, w, <<99, 100>>))>>
                IN  /\ Len(Emitted(i)) = 10
                    /\ \A k \in 1..10 :
                           /\ Emitted(i)[k].metric = names[k] \o FullName(i)
                           /\ Emitted(i)[k].type = types[k]
                           /\ Emitted(i)[k].points[1][2] = vals[k]
                           /\ Emitted(i)[k].metric # "median:" \o FullName(i)
                    /\ SharedFields(i)

\* the test's distribution, encoded alone: sum 15
C5_Witness ==
    /\ e_pc = "done"
    /\ Len(events) = 1
    /\ IsSamples(1, Distribution)
    /\ events[1].value.values = <<1, 2, 3>>
    /\ e_namespace = ""
    /\ Len(series) = 10
    /\ series[5].metric = "sum:requests" /\ series[5].points[1][2] = <<15, 1>>
    /\ series[7].metric = "p75:requests" /\ series[7].points[1][2] = <<2, 1>>

\* the legal combinations that are not Samples
IsLegalPlain(i) ==
    \/ events[i].kind = Incremental /\ events[i].value.variant \in {"Counter", "Set"}
    \/ events[i].kind = Absolute /\ events[i].value.variant = "Gauge"

\* C6: a metric of a legal combination other than Samples emits exactly one
\* record, named "{namespace}.{name}" (name alone under an empty namespace),
\* with exactly one point: Incremental Counter{v} gives Count, Some(interval)
\* and v; Incremental Set{vs} gives Gauge, None and the number of distinct
\* elements of vs; Absolute Gauge{v} gives Gauge, None and v.
C6_PlainRecords ==
    e_pc = "done" =>
        \A i \in 1..Len(events) :
            IsLegalPlain(i) =>
                LET value == events[i].value
                    r == Emitted(i)[1]
                IN  /\ Len(Emitted(i)) = 1
                    /\ r.metric = FullName(i)
                    /\ Len(r.points) = 1
                    /\ (events[i].kind = Incremental /\ value.variant = "Counter") =>
                           /\ r.type = Count
                           /\ r.interval = Some(e_interval)
                           /\ r.points[1][2] = value.value
                    /\ value.variant = "Set" =>
                           /\ r.type = Gauge
                           /\ r.interval = None
                           /\ r.points[1][2] = <<Cardinality(value.values), 1>>
                    /\ (events[i].kind = Absolute /\ value.variant = "Gauge") =>
                           /\ r.type = Gauge
                           /\ r.interval = None
                           /\ r.points[1][2] = value.value

\* a Set and an Absolute Gauge in one batch, without a namespace
C6_Witness ==
    /\ e_pc = "done"
    /\ e_namespace = ""
    /\ Len(events) = 2
    /\ events[1].kind = Incremental /\ events[1].value.variant = "Set"
    /\ events[2].kind = Absolute /\ events[2].value.variant = "Gauge"
    /\ Len(series) = 2
    /\ series[1].metric = "requests" /\ series[1].points[1][2] = <<2, 1>>
    /\ series[2].points[1][2] = <<-11, 10>>

IsIllegal(i) ==
    \/ events[i].kind = Incremental /\ events[i].value.variant = "Gauge"
    \/ events[i].kind = Absolute /\ events[i].value.variant \in {"Counter", "Samples", "Set"}

\* the series of the batch without event i, under the same interval,
\* namespace and clock reads
SeriesWithout(i) ==
    encode_events(RemoveAt(events, i), e_interval, e_namespace,
                  RemoveAt(reads, i)).series

\* C7: a metric of an illegal combination (Incremental Gauge; Absolute
\* Counter, Samples, Set) yields no record, and encode_events returns its
\* request all the same, with the records of the rest of the batch.
C7_IllegalDropped ==
    e_pc = "done" =>
        \A i \in 1..Len(events) :
            IsIllegal(i) =>
                /\ mapped[i] = None
                /\ Len(Emitted(i)) = 0
                /\ series = SeriesWithout(i)

\* tests::encode_gauge: an Incremental Gauge before an Absolute Gauge
C7_Witness ==
    /\ e_pc = "done"
    /\ Len(events) = 2
    /\ events[1].kind = Incremental /\ events[1].value.variant = "Gauge"
    /\ events[2].kind = Absolute /\ events[2].value.variant = "Gauge"
    /\ Len(series) = 1
    /\ series[1].type = Gauge

FailsToSummarize(i) ==
    /\ events[i].kind = Incremental
    /\ events[i].value.variant = "Samples"
    /\ ~Summarizes(i)

\* C8: an Incremental Samples metric whose summary fails emits no record and
\* encode_events does not fail; the records of the batch are exactly those of
\* the batch without that metric.
C8_FailedSummaryDropped ==
    e_pc = "done" =>
        \A i \in 1..Len(events) :
            FailsToSummarize(i) =>
                /\ Len(Emitted(i)) = 0
                /\ series = SeriesWithout(i)

\* a zero-weight histogram before a counter: the counter's record alone
C8_Witness ==
    /\ e_pc = "done"
    /\ Len(events) = 2
    /\ FailsToSummarize(1)
    /\ events[1].value.sample_rates = <<0, 0>>
    /\ events[2].kind = Incremental /\ events[2].value.variant = "Counter"
    /\ Len(series) = 1
    /\ series[1].type = Count

\* C10 as stated: in every record of the series the interval is present only
\* on records of type Count or Rate; no Gauge record carries an interval.
C10_IntervalOnlyOnCountRate ==
    e_pc = "done" =>
        \A n \in 1..Len(series) :
            IsSome(series[n].interval) => series[n].type \in {Count, Rate}

\* C10 amended: every Count and Rate record carries the interval, and a Gauge
\* record carries one exactly when a Samples metric emitted it.
C10_IntervalOnCountRateAndSamples ==
    e_pc = "done" =>
        \A i \in 1..Len(events) :
            \A k \in 1..Len(Emitted(i)) :
                LET r == Emitted(i)[k] IN
                /\ r.type \in {Count, Rate} => r.interval = Some(e_interval)
                /\ r.type = Gauge =>
                       IF events[i].value.variant = "Samples"
                       THEN r.interval = Some(e_interval)
                       ELSE r.interval = None

\* a Set and a histogram in one batch: a Gauge without and Gauges with the
\* interval
C10_Witness ==
    /\ e_pc = "done"
    /\ Len(events) = 2
    /\ events[1].value.variant = "Set" /\ events[1].kind = Incremental
    /\ IsSamples(2, Histogram)
    /\ Len(series) = 7
    /\ series[1].type = Gauge /\ series[1].interval = None
    /\ series[2].type = Gauge /\ series[2].interval = Some(e_interval)
    /\ series[4].type = Rate

\* ---------------------------------------------------------------- the tags
\* the "k:v" string of entry k of a tag map
TagString(tags, k) == k \o <<58>> \o tags[k]

\* q holds exactly one "k:v" string per entry of the map, ascending
OnePerEntrySorted(q, tags) ==
    /\ Len(q) = Cardinality(DOMAIN tags)
    /\ \A k \in DOMAIN tags : \E n \in 1..Len(q) : q[n] = TagString(tags, k)
    /\ \A a, b \in 1..Len(q) : a < b => ~LexLess(q[b], q[a])

\* C11: the tags of every emitted record are absent (None) when the metric's
\* tag map is absent or empty, never an empty list; otherwise they hold
\* exactly one "k:v" string per entry of the map, sorted ascending by the
\* whole string.
C11_TagsAbsentOrSorted ==
    e_pc = "done" =>
        \A i \in 1..Len(events) :
            \A k \in 1..Len(Emitted(i)) :
                LET r == Emitted(i)[k]
                    tags == events[i].tags
                IN  IF ~IsSome(tags) \/ DOMAIN tags.val = {}
                    THEN r.tags = None
                    ELSE /\ IsSome(r.tags)
                         /\ OnePerEntrySorted(r.tags.val, tags.val)

\* ------------------------------------------------------- the concatenation
\* the series of events a..b of the batch encoded as a batch of their own,
\* under the call's interval and namespace and the clock values they read
SeriesOfPart(a, b) ==
    encode_events(SubSeq(events, a, b), e_interval, e_namespace,
                  SubSeq(reads, a, b)).series

\* the series of the first n events, each encoded alone, one after the other
RECURSIVE SeriesOneByOne(_)
SeriesOneByOne(n) ==
    IF n = 0 THEN <<>> ELSE SeriesOneByOne(n - 1) \o SeriesOfPart(n, n)

\* C12: the series of a batch is the concatenation, in input order, of the
\* record sequences of its metrics encoded separately with the same interval
\* and namespace (and, for a metric without a timestamp, the same clock
\* value): encode(a ++ b) = encode(a) ++ encode(b) at every split, a metric
\* without records contributes nothing, and the records of one metric are
\* contiguous and in their own order.
C12_SeriesIsConcatenation ==
    e_pc = "done" =>
        /\ series = SeriesOneByOne(Len(events))
        /\ \A n \in 0..Len(events) :
               series = SeriesOfPart(1, n) \o SeriesOfPart(n + 1, Len(events))
        /\ \A i \in 1..Len(events) :
               /\ Emitted(i) = SeriesOfPart(i, i)
               /\ ~IsSome(mapped[i]) => SeriesOfPart(i, i) = <<>>
        /\ Len(series) = Offset(Len(events) + 1)

\* a histogram, then a counter without a timestamp: six records and then one,
\* stamped with the clock value the counter read
C12_Witness ==
    /\ e_pc = "done"
    /\ Len(events) = 2
    /\ IsSamples(1, Histogram) /\ Summarizes(1)
    /\ events[2].kind = Incremental /\ events[2].value.variant = "Counter"
    /\ events[2].timestamp = None
    /\ Len(series) = 7
    /\ series[6].metric = "requests.95percentile"
    /\ series[7].metric = "total" /\ series[7].type = Count
    /\ series[7].points[1][1] = reads[2]

\* ------------------------------------------------------ the sink's intervals
\* C13: the clock never decreases, and yet in every interleaving of
\* build_request calls every interval computed is >= 0 and
\* last_sent_timestamp never decreases.
C13_IntervalsNonNegative ==
    [][/\ clock' >= clock =>
            /\ \A f \in Flushes : interval'[f] >= 0
            /\ last_sent_timestamp' >= last_sent_timestamp]_vars

====
